---------------------------- MODULE Spec2Model ----------------------------
(***************************************************************************)
(* Liveness-verification session engine of Crocengine                      *)
(* (ai-models/face verification/face_kyc_api.py and simple_face_kyc.py).   *)
(*                                                                         *)
(* The two verifier classes are the same program up to their thresholds,   *)
(* their completion policy and the capacity of face_positions; `profile`   *)
(* says which of the two is running ("api": FaceKYCVerifier, "simple":     *)
(* SimpleFaceKYCVerifier).                                                 *)
(*                                                                         *)
(* Representation.  A pose component is a float in the source; here it is  *)
(* an integer number of hundredths (0.15 is 15), so every threshold of the *)
(* source is representable and the strict comparisons keep their meaning.  *)
(* time.time() is the variable `now`, counted in ticks finer than a        *)
(* millisecond, so that int(time.time() * 1000) truncates.  The rate       *)
(* face_detected_frames / max(total_frames, 1) >= 0.7 is compared exactly  *)
(* as 10 * face_detected_frames >= 7 * max(total_frames, 1): for counters  *)
(* below 400 the IEEE quotient and the exact one compare alike with 0.7    *)
(* and with 0.6.                                                           *)
(***************************************************************************)
EXTENDS Integers, Sequences, FiniteSets, TLC

VARIABLES
    profile,    \* which verifier class runs: "api" or "simple"
    sessions,   \* self.sessions: session id -> session_data
    now,        \* the clock time.time(), in ticks of 1 / TicksPerMs milliseconds
    response,   \* the value returned by the last call
    varied,     \* environment: frames submitted with a pose other than PoseCenter
    step,       \* environment: frames submitted by the scripted 60-frame client
    threads     \* request threads inside process_frame / get_session_status

vars == <<profile, sessions, now, response, varied, step, threads>>

(***************************************************************************)
(* Bounds of the model                                                     *)
(***************************************************************************)
MaxFrames == 62        \* frames submitted to one session of the long run
MaxAbsent == 19        \* frames without a face among them
MaxVaried == 2         \* frames of the long run whose pose is not PoseCenter
MaxClock == 3          \* clock values 0 .. MaxClock
TicksPerMs == 2        \* resolution of the clock: ticks in one millisecond
MaxStoreFrames == 2    \* frames per session in the store specification
GridMax == 22          \* pose components of the classifier grid: -GridMax .. GridMax
OrderLen == 3          \* labelled frames of each session of the order specification
OrderExtra == 1        \* frames beyond min_frames sent to those sessions
MaxSignalFrames == 3   \* frames of the session of the signal specification
MaxDeletes == 1        \* deletions made by the clients of the deletion specification
MaxLiveAbsent == 20    \* frames without a face of the session of the liveness specification
MaxLiveFrames == 80    \* frames sent to that session
ScenarioSegment == 20  \* frames of each pose sent by the scripted client
MaxThreads == 2        \* request threads, each making one call

Profiles == {"api", "simple"}
Movements == {"left", "right", "up", "down", "center"}

(***************************************************************************)
(* Program constants                                                       *)
(***************************************************************************)
h_threshold_api == 15
v_threshold_api == 12
center_threshold_api == 8
h_threshold_simple == 20
v_threshold_simple == 15
center_threshold_simple == 10
min_frames_api == 60
min_frames_simple == 45
min_rate_tenths_api == 7
min_rate_tenths_simple == 6
min_completed == 3
movement_history_maxlen == 30
face_positions_maxlen_api == 10
face_positions_maxlen_simple == 15

h_threshold(p) == IF p = "api" THEN h_threshold_api ELSE h_threshold_simple
v_threshold(p) == IF p = "api" THEN v_threshold_api ELSE v_threshold_simple
center_threshold(p) == IF p = "api" THEN center_threshold_api ELSE center_threshold_simple
min_frames(p) == IF p = "api" THEN min_frames_api ELSE min_frames_simple
min_rate_tenths(p) == IF p = "api" THEN min_rate_tenths_api ELSE min_rate_tenths_simple
face_positions_maxlen(p) == IF p = "api" THEN face_positions_maxlen_api ELSE face_positions_maxlen_simple

required_movements == {"left", "right", "up", "center"}

(***************************************************************************)
(* Helpers                                                                 *)
(***************************************************************************)
Abs(x) == IF x < 0 THEN -x ELSE x
Max(a, b) == IF a >= b THEN a ELSE b
Min(a, b) == IF a <= b THEN a ELSE b

\* collections.deque(maxlen = n).append(x): append on the right, and drop
\* from the left once the length exceeds n.
\* Mutant: a full deque refuses the new entry instead of evicting the oldest.
deque_append_keep_oldest(d, x, n) ==
    IF Len(d) >= n THEN d ELSE Append(d, x)

deque_append(d, x, n) ==
    LET e == Append(d, x)
    IN  IF Len(e) > n THEN SubSeq(e, 2, Len(e)) ELSE e

NoMovement == "None"

\* Mutant: the creation of the session is counted as its first frame.
new_session_counted ==
    [ start_time            |-> now,
      movements             |-> [m \in Movements |-> FALSE],
      movement_history      |-> << >>,
      face_positions        |-> << >>,
      verification_complete |-> FALSE,
      is_verified           |-> FALSE,
      total_frames          |-> 1,
      face_detected_frames  |-> 0 ]

\* The session_data of create_session.
new_session ==
    [ start_time            |-> now,
      movements             |-> [m \in Movements |-> FALSE],
      movement_history      |-> << >>,
      face_positions        |-> << >>,
      verification_complete |-> FALSE,
      is_verified           |-> FALSE,
      total_frames          |-> 0,
      face_detected_frames  |-> 0 ]

\* Mutant: the vertical tests come before the horizontal ones.
classify_vertical_first(p, pose) ==
    IF Abs(pose.horizontal) < center_threshold(p) /\ Abs(pose.vertical) < center_threshold(p)
        THEN "center"
    ELSE IF pose.vertical < -v_threshold(p) THEN "up"
    ELSE IF pose.vertical > v_threshold(p) THEN "down"
    ELSE IF pose.horizontal > h_threshold(p) THEN "right"
    ELSE IF pose.horizontal < -h_threshold(p) THEN "left"
    ELSE NoMovement

\* Mutant: the comparisons include the threshold.
classify_inclusive(p, pose) ==
    IF Abs(pose.horizontal) <= center_threshold(p) /\ Abs(pose.vertical) <= center_threshold(p)
        THEN "center"
    ELSE IF pose.horizontal >= h_threshold(p) THEN "right"
    ELSE IF pose.horizontal <= -h_threshold(p) THEN "left"
    ELSE IF pose.vertical <= -v_threshold(p) THEN "up"
    ELSE IF pose.vertical >= v_threshold(p) THEN "down"
    ELSE NoMovement

\* The if / elif chain of detect_movement: the label of a pose, or None.
classify(p, pose) ==
    IF Abs(pose.horizontal) < center_threshold(p) /\ Abs(pose.vertical) < center_threshold(p)
        THEN "center"
    ELSE IF pose.horizontal > h_threshold(p) THEN "right"
    ELSE IF pose.horizontal < -h_threshold(p) THEN "left"
    ELSE IF pose.vertical < -v_threshold(p) THEN "up"
    ELSE IF pose.vertical > v_threshold(p) THEN "down"
    ELSE NoMovement

\* Mutant: the movements dictionary is rebuilt from the current label.
detect_movement_current_only(p, pose, sd) ==
    LET m == classify(p, pose)
    IN  [sd EXCEPT !.face_positions =
                       deque_append(@, [horizontal |-> pose.horizontal,
                                        vertical   |-> pose.vertical,
                                        timestamp  |-> now],
                                    face_positions_maxlen(p)),
                   !.movements = [x \in Movements |-> x = m],
                   !.movement_history =
                       IF m = NoMovement THEN @
                       ELSE deque_append(@, [movement  |-> m,
                                             timestamp |-> now,
                                             pose      |-> pose],
                                         movement_history_maxlen)]

\* Mutant: a movement other than center is marked only once center is.
detect_movement_center_first(p, pose, sd) ==
    LET m  == classify(p, pose)
        s1 == [sd EXCEPT !.face_positions =
                  deque_append(@, [horizontal |-> pose.horizontal,
                                   vertical   |-> pose.vertical,
                                   timestamp  |-> now],
                               face_positions_maxlen(p))]
    IN  IF m = NoMovement
        THEN s1
        ELSE [s1 EXCEPT !.movements[m] = (m = "center" \/ sd.movements["center"]),
                        !.movement_history =
                            deque_append(@, [movement  |-> m,
                                             timestamp |-> now,
                                             pose      |-> pose],
                                         movement_history_maxlen)]

\* Mutant: a frame whose label is None is entered in movement_history too.
detect_movement_log_none(p, pose, sd) ==
    LET m  == classify(p, pose)
        s1 == [sd EXCEPT !.face_positions =
                  deque_append(@, [horizontal |-> pose.horizontal,
                                   vertical   |-> pose.vertical,
                                   timestamp  |-> now],
                               face_positions_maxlen(p)),
                         !.movement_history =
                  deque_append(@, [movement  |-> m,
                                   timestamp |-> now,
                                   pose      |-> pose],
                               movement_history_maxlen)]
    IN  IF m = NoMovement
        THEN s1
        ELSE [s1 EXCEPT !.movements[m] = TRUE]

\* detect_movement(pose, session_data): the session_data it leaves.
detect_movement(p, pose, sd) ==
    LET m  == classify(p, pose)
        s1 == [sd EXCEPT !.face_positions =
                  deque_append(@, [horizontal |-> pose.horizontal,
                                   vertical   |-> pose.vertical,
                                   timestamp  |-> now],
                               face_positions_maxlen(p))]
    IN  IF m = NoMovement
        THEN s1
        ELSE [s1 EXCEPT !.movements[m] = TRUE,
                        !.movement_history =
                            deque_append(@, [movement  |-> m,
                                             timestamp |-> now,
                                             pose      |-> pose],
                                         movement_history_maxlen)]

\* sum(1 for move in required_movements if movements[move])
completed_movements(sd) == Cardinality({m \in required_movements : sd.movements[m]})

\* Mutant: total_frames > min_frames.
policy_met_strict_frames(p, sd) ==
    /\ completed_movements(sd) >= min_completed
    /\ sd.total_frames > min_frames(p)
    /\ 10 * sd.face_detected_frames >= min_rate_tenths(p) * Max(sd.total_frames, 1)

\* Mutant: the frame count is not part of the condition.
policy_met_no_frames(p, sd) ==
    /\ completed_movements(sd) >= min_completed
    /\ 10 * sd.face_detected_frames >= min_rate_tenths(p) * Max(sd.total_frames, 1)

\* Mutant: the detection rate must exceed the minimum.
policy_met_strict_rate(p, sd) ==
    /\ completed_movements(sd) >= min_completed
    /\ sd.total_frames >= min_frames(p)
    /\ 10 * sd.face_detected_frames > min_rate_tenths(p) * Max(sd.total_frames, 1)

\* Mutant: the detection rate is not part of the condition.
policy_met_no_rate(p, sd) ==
    /\ completed_movements(sd) >= min_completed
    /\ sd.total_frames >= min_frames(p)

\* Mutant: total_frames == min_frames.
policy_met_exact_frames(p, sd) ==
    /\ completed_movements(sd) >= min_completed
    /\ sd.total_frames = min_frames(p)
    /\ 10 * sd.face_detected_frames >= min_rate_tenths(p) * Max(sd.total_frames, 1)

\* The condition of the if of check_verification_complete.
policy_met(p, sd) ==
    /\ completed_movements(sd) >= min_completed
    /\ sd.total_frames >= min_frames(p)
    /\ 10 * sd.face_detected_frames >= min_rate_tenths(p) * Max(sd.total_frames, 1)

\* Mutant: a session that has its frames but not its policy is closed as
\* not verified.
check_verification_complete_reject(p, sd) ==
    IF policy_met(p, sd)
    THEN [sd EXCEPT !.verification_complete = TRUE, !.is_verified = TRUE]
    ELSE IF sd.total_frames >= min_frames(p)
    THEN [sd EXCEPT !.verification_complete = TRUE]
    ELSE sd

\* check_verification_complete(session_data): the session_data it leaves;
\* its return value is the verification_complete of that record.
check_verification_complete(p, sd) ==
    IF policy_met(p, sd)
    THEN [sd EXCEPT !.verification_complete = TRUE, !.is_verified = TRUE]
    ELSE sd

\* Mutant: progress counts the five movements, down included.
progress_of_all_movements(sd) ==
    Min(100, (Cardinality({m \in Movements : sd.movements[m]}) * 100) \div 4)

\* min(100, (completed_movements / 4) * 100)
progress_of(sd) == Min(100, (completed_movements(sd) * 100) \div 4)

(***************************************************************************)
(* Inputs.  What process_frame is given is an image; what matters of it is *)
(* whether it decodes, whether a face is found in it, and the pose of that *)
(* face.                                                                   *)
(***************************************************************************)
Undecodable == [kind |-> "undecodable"]
NoFace == [kind |-> "noface"]
Face(h, v) == [kind |-> "face", pose |-> [horizontal |-> h, vertical |-> v]]

\* A non-finite pose component.  float('inf') compares greater than every
\* threshold and -float('inf') smaller than every negated threshold, as does
\* this integer, which lies beyond every pose computed from an image.
Infinity == 1000000
Finite(x) == -Infinity < x /\ x < Infinity
NonFinitePoses == {Face(Infinity, 0), Face(-Infinity, 0), Face(0, Infinity),
                   Face(0, -Infinity), Face(Infinity, -Infinity)}

PoseCenter == Face(0, 0)
PoseRight(p) == Face(h_threshold(p) + 1, 0)
PoseLeft(p) == Face(-(h_threshold(p) + 1), 0)
PoseUp(p) == Face(0, -(v_threshold(p) + 1))
PoseDown(p) == Face(0, v_threshold(p) + 1)
PoseNone(p) == Face(center_threshold(p), 0)
VariedPoses(p) == {PoseRight(p), PoseLeft(p), PoseUp(p), PoseDown(p), PoseNone(p)}

(***************************************************************************)
(* Return values                                                           *)
(***************************************************************************)
NoResponse == [op |-> "none"]
error_response(op, id, msg) == [op |-> op, id |-> id, error |-> msg]

(***************************************************************************)
(* Operations, each as one atomic call                                     *)
(***************************************************************************)
\* int(time.time() * 1000): the clock truncated to whole milliseconds.
session_id_now == now \div TicksPerMs

\* self.sessions[session_id] = {...}: an assignment, which replaces the
\* record of a session_id that is already a key.
create_session ==
    /\ sessions' = [id \in DOMAIN sessions \cup {session_id_now} |->
                       IF id = session_id_now THEN new_session ELSE sessions[id]]
    /\ response' = [op |-> "create_session", id |-> session_id_now]
    /\ UNCHANGED <<profile, now, threads>>

\* Mutant: the flags are recomputed from the policy after every frame.
frame_update_reevaluate(p, sd, input) ==
    LET s1 == [sd EXCEPT !.total_frames = @ + 1]
        s3 == IF input.kind = "face"
              THEN detect_movement(p, input.pose,
                       [s1 EXCEPT !.face_detected_frames = @ + 1])
              ELSE s1
    IN  [s3 EXCEPT !.verification_complete = policy_met(p, s3),
                   !.is_verified = policy_met(p, s3)]

\* Mutant: check_verification_complete is not called.
frame_update_no_check(p, sd, input) ==
    LET s1 == [sd EXCEPT !.total_frames = @ + 1]
    IN  IF input.kind = "face"
        THEN detect_movement(p, input.pose,
                 [s1 EXCEPT !.face_detected_frames = @ + 1])
        ELSE s1

\* Mutant: total_frames counts only the frames in which a face is found.
frame_update_total_late(p, sd, input) ==
    IF input.kind = "face"
    THEN check_verification_complete(p,
             detect_movement(p, input.pose,
                 [sd EXCEPT !.face_detected_frames = @ + 1]))
    ELSE [sd EXCEPT !.total_frames = @ + 1]

\* Mutant: every decoded frame is counted as face-detected.
frame_update_count_all(p, sd, input) ==
    LET s1 == [sd EXCEPT !.total_frames = @ + 1]
    IN  IF input.kind = "undecodable" THEN s1
        ELSE IF input.kind = "noface"
        THEN check_verification_complete(p,
                 [s1 EXCEPT !.face_detected_frames = @ + 1])
        ELSE check_verification_complete(p,
                 detect_movement(p, input.pose,
                     [s1 EXCEPT !.face_detected_frames = @ + 1]))

\* The record and the return value of process_frame on a known session.
frame_update(p, sd, input) ==
    LET s1 == [sd EXCEPT !.total_frames = @ + 1]
    IN  IF input.kind = "undecodable" THEN s1
        ELSE IF input.kind = "noface" THEN s1
        ELSE check_verification_complete(p,
                 detect_movement(p, input.pose,
                     [s1 EXCEPT !.face_detected_frames = @ + 1]))

frame_response(p, id, sd, input) ==
    LET s1 == [sd EXCEPT !.total_frames = @ + 1]
        s4 == frame_update(p, sd, input)
    IN  IF input.kind = "undecodable"
        THEN error_response("process_frame", id, "Could not decode image")
        ELSE IF input.kind = "noface"
        THEN [ op |-> "process_frame", id |-> id,
               face_detected         |-> FALSE,
               movement_detected     |-> NoMovement,
               movements_completed   |-> s1.movements,
               verification_complete |-> FALSE,
               is_verified           |-> FALSE,
               progress              |-> 0 ]
        ELSE [ op |-> "process_frame", id |-> id,
               face_detected         |-> TRUE,
               movement_detected     |-> classify(p, input.pose),
               movements_completed   |-> s1.movements,
               verification_complete |-> s4.verification_complete,
               is_verified           |-> s4.is_verified,
               progress              |-> progress_of(s4) ]

\* Mutant: sessions behaves as a defaultdict; an unknown id gets a record.
process_frame_autocreate(id, input) ==
    /\ sessions' = [i \in DOMAIN sessions \cup {id} |->
                       IF i = id
                       THEN frame_update(profile,
                                IF id \in DOMAIN sessions THEN sessions[id]
                                ELSE new_session, input)
                       ELSE sessions[i]]
    /\ response' = frame_response(profile, id,
                       IF id \in DOMAIN sessions THEN sessions[id] ELSE new_session,
                       input)
    /\ UNCHANGED <<profile, now, threads>>

\* Mutant: the sessions share one record; a frame is applied to all of them.
process_frame_shared(id, input) ==
    /\ IF id \notin DOMAIN sessions
       THEN /\ response' = error_response("process_frame", id, "Invalid session ID")
            /\ UNCHANGED sessions
       ELSE /\ sessions' = [i \in DOMAIN sessions |->
                                frame_update(profile, sessions[i], input)]
            /\ response' = frame_response(profile, id, sessions[id], input)
    /\ UNCHANGED <<profile, now, threads>>

process_frame(id, input) ==
    /\ IF id \notin DOMAIN sessions
       THEN /\ response' = error_response("process_frame", id, "Invalid session ID")
            /\ UNCHANGED sessions
       ELSE /\ sessions' = [sessions EXCEPT ![id] = frame_update(profile, @, input)]
            /\ response' = frame_response(profile, id, sessions[id], input)
    /\ UNCHANGED <<profile, now, threads>>

\* Mutant: a status query is counted as a frame of the session.
get_session_status_counting(id) ==
    /\ IF id \notin DOMAIN sessions
       THEN /\ response' = error_response("get_session_status", id, "Invalid session ID")
            /\ UNCHANGED sessions
       ELSE /\ sessions' = [sessions EXCEPT ![id].total_frames = @ + 1]
            /\ response' =
                 [ op |-> "get_session_status", id |-> id,
                   session_id            |-> id,
                   movements_completed   |-> sessions[id].movements,
                   verification_complete |-> sessions[id].verification_complete,
                   is_verified           |-> sessions[id].is_verified,
                   total_frames          |-> sessions[id].total_frames,
                   face_detected_frames  |-> sessions[id].face_detected_frames,
                   elapsed_time          |-> now - sessions[id].start_time ]
    /\ UNCHANGED <<profile, now, threads>>

get_session_status(id) ==
    /\ IF id \notin DOMAIN sessions
       THEN response' = error_response("get_session_status", id, "Invalid session ID")
       ELSE response' =
              [ op |-> "get_session_status", id |-> id,
                session_id            |-> id,
                movements_completed   |-> sessions[id].movements,
                verification_complete |-> sessions[id].verification_complete,
                is_verified           |-> sessions[id].is_verified,
                total_frames          |-> sessions[id].total_frames,
                face_detected_frames  |-> sessions[id].face_detected_frames,
                elapsed_time          |-> now - sessions[id].start_time ]
    /\ UNCHANGED <<profile, sessions, now, threads>>

\* Delete(id) of the session store, as the specification describes it: the
\* record of the id is removed from the store.  The source has no such
\* operation; self.sessions is a dict, from which a key is removed by del.
delete_session(id) ==
    /\ IF id \notin DOMAIN sessions
       THEN /\ response' = error_response("delete_session", id, "Invalid session ID")
            /\ UNCHANGED sessions
       ELSE /\ sessions' = [i \in DOMAIN sessions \ {id} |-> sessions[i]]
            /\ response' = [op |-> "delete_session", id |-> id]
    /\ UNCHANGED <<profile, now, threads>>

\* The clock advances.
Tick ==
    /\ now < MaxClock
    /\ now' = now + 1
    /\ UNCHANGED <<profile, sessions, response, varied, step, threads>>

NoThreads == << >>

Init ==
    /\ profile \in Profiles
    /\ sessions = << >>
    /\ now = 0
    /\ response = NoResponse
    /\ varied = 0
    /\ step = 0
    /\ threads = NoThreads

(***************************************************************************)
(* Spec: one client, one session, a long run of frames.  The client sends  *)
(* frames without a face and frames with the pose PoseCenter freely, and   *)
(* at most MaxVaried frames with another pose; once it has sent one of     *)
(* those, its further PoseCenter frames count among the MaxVaried.         *)
(***************************************************************************)
LongCreate ==
    /\ DOMAIN sessions = {}
    /\ create_session
    /\ UNCHANGED <<varied, step>>

LongNoFace ==
    \E id \in DOMAIN sessions :
        /\ sessions[id].total_frames < MaxFrames
        /\ sessions[id].total_frames - sessions[id].face_detected_frames < MaxAbsent
        /\ process_frame(id, NoFace)
        /\ UNCHANGED <<varied, step>>

LongCenter ==
    \E id \in DOMAIN sessions :
        /\ sessions[id].total_frames < MaxFrames
        /\ varied = 0
        /\ process_frame(id, PoseCenter)
        /\ UNCHANGED <<varied, step>>

LongVaried ==
    \E id \in DOMAIN sessions :
        \E input \in VariedPoses(profile) \cup {PoseCenter} :
            /\ sessions[id].total_frames < MaxFrames
            /\ varied < MaxVaried
            /\ process_frame(id, input)
            /\ varied' = varied + 1
            /\ UNCHANGED step

Next == LongCreate \/ LongNoFace \/ LongCenter \/ LongVaried

Spec == Init /\ [][Next]_vars

(***************************************************************************)
(* SpecStore: several clients of one verifier.  Sessions are created at    *)
(* any time, the clock advances, and frames and status queries are sent    *)
(* for known and for unknown session ids.                                  *)
(***************************************************************************)
StoreIds == 0 .. (MaxClock \div TicksPerMs)
StoreInputs == {Undecodable, NoFace, PoseCenter, PoseNone(profile)}

StoreCreate ==
    /\ create_session
    /\ UNCHANGED <<varied, step>>

StoreFrame ==
    \E id \in StoreIds :
        \E input \in StoreInputs :
            /\ id \in DOMAIN sessions => sessions[id].total_frames < MaxStoreFrames
            /\ process_frame(id, input)
            /\ UNCHANGED <<varied, step>>

StoreStatus ==
    \E id \in StoreIds :
        /\ get_session_status(id)
        /\ UNCHANGED <<varied, step>>

NextStore == StoreCreate \/ StoreFrame \/ StoreStatus \/ Tick

SpecStore == Init /\ [][NextStore]_vars

(***************************************************************************)
(* SpecScenario: the scripted client of the 60-frame scenario.  It creates *)
(* one session and sends ScenarioSegment frames with a pose in the center  *)
(* range, then ScenarioSegment frames beyond the negative horizontal       *)
(* threshold, then ScenarioSegment frames beyond the positive one; it may  *)
(* ask for the status at any time.                                         *)
(***************************************************************************)
ScenarioLength == 3 * ScenarioSegment

ScenarioInput(n) ==
    IF n < ScenarioSegment THEN PoseCenter
    ELSE IF n < 2 * ScenarioSegment THEN PoseLeft(profile)
    ELSE PoseRight(profile)

ScenarioCreate ==
    /\ DOMAIN sessions = {}
    /\ create_session
    /\ UNCHANGED <<varied, step>>

ScenarioFrame ==
    \E id \in DOMAIN sessions :
        /\ step < ScenarioLength
        /\ process_frame(id, ScenarioInput(step))
        /\ step' = step + 1
        /\ UNCHANGED varied

ScenarioStatus ==
    \E id \in DOMAIN sessions :
        /\ get_session_status(id)
        /\ UNCHANGED <<varied, step>>

NextScenario == ScenarioCreate \/ ScenarioFrame \/ ScenarioStatus

SpecScenario == Init /\ [][NextScenario]_vars

(***************************************************************************)
(* SpecConc: request threads.  The server handles each request in a thread *)
(* of its own and process_frame takes no lock, so the calls interleave.    *)
(* A call is split where it reads and where it writes total_frames and     *)
(* face_detected_frames (`x += 1` on a dictionary entry is a load, an add  *)
(* and a store); the rest of the call is taken as one step.                *)
(***************************************************************************)
Threads == 1 .. MaxThreads
ConcInputs == {Undecodable, NoFace, PoseCenter}
IdleThread == [pc |-> "idle"]

InitConc ==
    /\ profile \in Profiles
    /\ sessions = << >>
    /\ now = 0
    /\ response = NoResponse
    /\ varied = 0
    /\ step = 0
    /\ threads = [t \in Threads |-> IdleThread]

ConcCreate ==
    /\ DOMAIN sessions = {}
    /\ create_session
    /\ UNCHANGED <<varied, step>>

\* if session_id not in self.sessions: return {'error': ...}
\* session_data = self.sessions[session_id]
pf_call(t) ==
    \E id \in StoreIds :
        \E input \in ConcInputs :
            /\ threads[t].pc = "idle"
            /\ IF id \notin DOMAIN sessions
               THEN /\ threads' = [threads EXCEPT ![t] =
                           [pc |-> "refused", id |-> id, input |-> input]]
                    /\ response' = error_response("process_frame", id, "Invalid session ID")
               ELSE /\ threads' = [threads EXCEPT ![t] =
                           [pc |-> "load_total", id |-> id, input |-> input]]
                    /\ UNCHANGED response
            /\ UNCHANGED <<profile, sessions, now, varied, step>>

\* session_data['total_frames'] += 1: the load
pf_load_total(t) ==
    /\ threads[t].pc = "load_total"
    /\ threads' = [threads EXCEPT ![t] =
           [pc |-> "store_total", id |-> @.id, input |-> @.input,
            reg |-> sessions[@.id].total_frames]]
    /\ UNCHANGED <<profile, sessions, now, response, varied, step>>

\* session_data['total_frames'] += 1: the store
pf_store_total(t) ==
    /\ threads[t].pc = "store_total"
    /\ sessions' = [sessions EXCEPT ![threads[t].id].total_frames = threads[t].reg + 1]
    /\ threads' = [threads EXCEPT ![t] =
           [pc |-> "decode", id |-> @.id, input |-> @.input]]
    /\ UNCHANGED <<profile, now, response, varied, step>>

\* The image is decoded and searched for a face; the response is prepared
\* with a copy of the movements.
pf_decode(t) ==
    /\ threads[t].pc = "decode"
    /\ IF threads[t].input.kind = "face"
       THEN /\ threads' = [threads EXCEPT ![t] =
                   [pc |-> "load_detected", id |-> @.id, input |-> @.input,
                    copy |-> sessions[@.id].movements]]
            /\ UNCHANGED response
       ELSE /\ threads' = [threads EXCEPT ![t] =
                   [pc |-> "done", id |-> @.id, input |-> @.input]]
            /\ response' =
                   IF threads[t].input.kind = "undecodable"
                   THEN error_response("process_frame", threads[t].id,
                                       "Could not decode image")
                   ELSE [ op |-> "process_frame", id |-> threads[t].id,
                          face_detected         |-> FALSE,
                          movement_detected     |-> NoMovement,
                          movements_completed   |-> sessions[threads[t].id].movements,
                          verification_complete |-> FALSE,
                          is_verified           |-> FALSE,
                          progress              |-> 0 ]
    /\ UNCHANGED <<profile, sessions, now, varied, step>>

\* session_data['face_detected_frames'] += 1: the load
pf_load_detected(t) ==
    /\ threads[t].pc = "load_detected"
    /\ threads' = [threads EXCEPT ![t] =
           [pc |-> "store_detected", id |-> @.id, input |-> @.input,
            copy |-> @.copy, reg |-> sessions[@.id].face_detected_frames]]
    /\ UNCHANGED <<profile, sessions, now, response, varied, step>>

\* session_data['face_detected_frames'] += 1: the store
pf_store_detected(t) ==
    /\ threads[t].pc = "store_detected"
    /\ sessions' = [sessions EXCEPT
           ![threads[t].id].face_detected_frames = threads[t].reg + 1]
    /\ threads' = [threads EXCEPT ![t] =
           [pc |-> "detect", id |-> @.id, input |-> @.input, copy |-> @.copy]]
    /\ UNCHANGED <<profile, now, response, varied, step>>

\* detect_movement, check_verification_complete, and the return.
pf_detect(t) ==
    /\ threads[t].pc = "detect"
    /\ LET id == threads[t].id
           sd == check_verification_complete(profile,
                     detect_movement(profile, threads[t].input.pose, sessions[id]))
       IN  /\ sessions' = [sessions EXCEPT ![id] = sd]
           /\ response' =
                  [ op |-> "process_frame", id |-> id,
                    face_detected         |-> TRUE,
                    movement_detected     |-> classify(profile, threads[t].input.pose),
                    movements_completed   |-> threads[t].copy,
                    verification_complete |-> sd.verification_complete,
                    is_verified           |-> sd.is_verified,
                    progress              |-> progress_of(sd) ]
    /\ threads' = [threads EXCEPT ![t] =
           [pc |-> "done", id |-> @.id, input |-> @.input]]
    /\ UNCHANGED <<profile, now, varied, step>>

pf_step(t) ==
    \/ pf_call(t)
    \/ pf_load_total(t)
    \/ pf_store_total(t)
    \/ pf_decode(t)
    \/ pf_load_detected(t)
    \/ pf_store_detected(t)
    \/ pf_detect(t)

NextConc == ConcCreate \/ \E t \in Threads : pf_step(t)

SpecConc == InitConc /\ [][NextConc]_vars

(***************************************************************************)
(* SpecAbsent: a client whose frames never show a face.  It creates one    *)
(* session, sends frames without a face and may ask for the status.        *)
(***************************************************************************)
AbsentCreate ==
    /\ DOMAIN sessions = {}
    /\ create_session
    /\ UNCHANGED <<varied, step>>

AbsentFrame ==
    \E id \in DOMAIN sessions :
        /\ sessions[id].total_frames < MaxFrames
        /\ process_frame(id, NoFace)
        /\ UNCHANGED <<varied, step>>

AbsentStatus ==
    \E id \in DOMAIN sessions :
        /\ get_session_status(id)
        /\ UNCHANGED <<varied, step>>

NextAbsent == AbsentCreate \/ AbsentFrame \/ AbsentStatus

SpecAbsent == Init /\ [][NextAbsent]_vars

(***************************************************************************)
(* SpecClassify: the classifier on a grid of poses.  A client creates one  *)
(* session and sends, as its first frame, a face at any pose of the grid.  *)
(***************************************************************************)
Grid == (-GridMax) .. GridMax

ClassifyCreate ==
    /\ DOMAIN sessions = {}
    /\ create_session
    /\ UNCHANGED <<varied, step>>

ClassifyFrame ==
    \E id \in DOMAIN sessions :
        \E h \in Grid :
            \E v \in Grid :
                /\ sessions[id].total_frames = 0
                /\ process_frame(id, Face(h, v))
                /\ UNCHANGED <<varied, step>>

NextClassify == ClassifyCreate \/ ClassifyFrame

SpecClassify == Init /\ [][NextClassify]_vars

(***************************************************************************)
(* SpecOrder: the same frames in two orders.  A first session receives up  *)
(* to OrderLen labelled frames and then frames with the unlabelled pose    *)
(* PoseNone, until it has received min_frames + OrderExtra frames.  A      *)
(* second session, created in a later millisecond, receives the unlabelled *)
(* frames first and up to OrderLen labelled frames last.                   *)
(***************************************************************************)
OrderTotal == min_frames(profile) + OrderExtra
OrderPoses == {PoseCenter, PoseRight(profile), PoseLeft(profile), PoseDown(profile)}

\* The session created last.
Latest == CHOOSE id \in DOMAIN sessions : \A other \in DOMAIN sessions : other <= id

OrderCreate ==
    /\ session_id_now \notin DOMAIN sessions
    /\ Cardinality(DOMAIN sessions) < 2
    /\ create_session
    /\ UNCHANGED <<varied, step>>

OrderTick ==
    /\ session_id_now \in DOMAIN sessions
    /\ Cardinality(DOMAIN sessions) = 1
    /\ sessions[Latest].total_frames = OrderTotal
    /\ Tick

OrderLeading ==
    \E input \in OrderPoses :
        /\ Cardinality(DOMAIN sessions) = 1
        /\ sessions[Latest].face_detected_frames = Len(sessions[Latest].movement_history)
        /\ Len(sessions[Latest].movement_history) < OrderLen
        /\ process_frame(Latest, input)
        /\ UNCHANGED <<varied, step>>

OrderFiller ==
    /\ DOMAIN sessions # {}
    /\ sessions[Latest].total_frames < OrderTotal
    /\ Cardinality(DOMAIN sessions) = 2 => Len(sessions[Latest].movement_history) = 0
    /\ process_frame(Latest, PoseNone(profile))
    /\ UNCHANGED <<varied, step>>

OrderTrailing ==
    \E input \in OrderPoses :
        /\ Cardinality(DOMAIN sessions) = 2
        /\ sessions[Latest].total_frames >= OrderTotal - OrderLen
        /\ sessions[Latest].total_frames < OrderTotal
        /\ Len(sessions[Latest].movement_history) < OrderLen
        /\ process_frame(Latest, input)
        /\ UNCHANGED <<varied, step>>

NextOrder == OrderCreate \/ OrderTick \/ OrderLeading \/ OrderFiller \/ OrderTrailing

SpecOrder == Init /\ [][NextOrder]_vars

(***************************************************************************)
(* SpecSignal: malformed pose signals.  One session receives frames        *)
(* without a face, frames with the centered pose and frames whose pose     *)
(* has a non-finite component.                                             *)
(***************************************************************************)
SignalCreate ==
    /\ DOMAIN sessions = {}
    /\ create_session
    /\ UNCHANGED <<varied, step>>

SignalFrame ==
    \E id \in DOMAIN sessions :
        \E input \in {NoFace, PoseCenter} \cup NonFinitePoses :
            /\ sessions[id].total_frames < MaxSignalFrames
            /\ process_frame(id, input)
            /\ UNCHANGED <<varied, step>>

SignalStatus ==
    \E id \in DOMAIN sessions :
        /\ get_session_status(id)
        /\ UNCHANGED <<varied, step>>

NextSignal == SignalCreate \/ SignalFrame \/ SignalStatus

SpecSignal == Init /\ [][NextSignal]_vars

(***************************************************************************)
(* SpecDelete: the store with deletion.  As SpecStore, and a client may    *)
(* delete a session it knows; step counts the deletions made.              *)
(***************************************************************************)
DeleteInputs == {NoFace, PoseCenter}

DeleteCreate ==
    /\ create_session
    /\ UNCHANGED <<varied, step>>

DeleteFrame ==
    \E id \in StoreIds :
        \E input \in DeleteInputs :
            /\ id \in DOMAIN sessions => sessions[id].total_frames < MaxStoreFrames
            /\ process_frame(id, input)
            /\ UNCHANGED <<varied, step>>

DeleteStatus ==
    \E id \in StoreIds :
        /\ get_session_status(id)
        /\ UNCHANGED <<varied, step>>

DeleteSession ==
    \E id \in DOMAIN sessions :
        /\ step < MaxDeletes
        /\ delete_session(id)
        /\ step' = step + 1
        /\ UNCHANGED varied

DeleteTick ==
    /\ Tick

NextDelete == DeleteCreate \/ DeleteFrame \/ DeleteStatus \/ DeleteSession \/ DeleteTick

SpecDelete == Init /\ [][NextDelete]_vars

(***************************************************************************)
(* SpecLive: a client that keeps sending frames.  It sends frames with the  *)
(* poses center, left and right in turn until three required movements     *)
(* are marked, at any time up to MaxLiveAbsent frames without a face, and, *)
(* once three required movements are marked, frames with a face (at the    *)
(* unlabelled pose) until the session is complete, as run_live_test does.  *)
(* It does not stop                                                        *)
(* sending those frames while the session is open: weak fairness of        *)
(* LivePose.                                                               *)
(***************************************************************************)
LivePose_n(n) ==
    IF n = 0 THEN PoseCenter
    ELSE IF n = 1 THEN PoseLeft(profile)
    ELSE PoseRight(profile)

LiveCreate ==
    /\ DOMAIN sessions = {}
    /\ create_session
    /\ UNCHANGED <<varied, step>>

LiveMove ==
    \E id \in DOMAIN sessions :
        /\ completed_movements(sessions[id]) < min_completed
        /\ sessions[id].total_frames < MaxLiveFrames
        /\ process_frame(id, LivePose_n(varied))
        /\ varied' = varied + 1
        /\ UNCHANGED step

LiveAbsent ==
    \E id \in DOMAIN sessions :
        /\ sessions[id].total_frames - sessions[id].face_detected_frames < MaxLiveAbsent
        /\ ~sessions[id].verification_complete
        /\ sessions[id].total_frames < MaxLiveFrames
        /\ process_frame(id, NoFace)
        /\ UNCHANGED <<varied, step>>

LivePose ==
    \E id \in DOMAIN sessions :
        /\ completed_movements(sessions[id]) >= min_completed
        /\ ~sessions[id].verification_complete
        /\ sessions[id].total_frames < MaxLiveFrames
        /\ process_frame(id, PoseNone(profile))
        /\ UNCHANGED <<varied, step>>

NextLive == LiveCreate \/ LiveMove \/ LiveAbsent \/ LivePose

SpecLive == Init /\ [][NextLive]_vars /\ WF_vars(LivePose)

(***************************************************************************)
(* SpecVerdict: a status query during a frame.  The scripted client of     *)
(* SpecScenario sends its frames one after the other, each handled by a    *)
(* request thread, while a second client polls get_session_status, handled *)
(* by a thread of its own.  Neither method takes a lock.  The frame is     *)
(* split where check_verification_complete writes the two flags (two       *)
(* assignment statements), the status query where it reads them (two       *)
(* subscriptions while the returned dictionary is built).                  *)
(***************************************************************************)
InitVerdict ==
    /\ profile \in Profiles
    /\ sessions = << >>
    /\ now = 0
    /\ response = NoResponse
    /\ varied = 0
    /\ step = 0
    /\ threads = [frame |-> IdleThread, status |-> IdleThread]

VerdictCreate ==
    /\ DOMAIN sessions = {}
    /\ create_session
    /\ UNCHANGED <<varied, step>>

\* process_frame up to the if of check_verification_complete: the counters,
\* the copy of the movements, detect_movement, the test of the condition.
frame_begin ==
    \E id \in DOMAIN sessions :
        /\ threads.frame.pc = "idle"
        /\ step < ScenarioLength
        /\ LET input == ScenarioInput(step)
               sd == detect_movement(profile, input.pose,
                         [sessions[id] EXCEPT !.total_frames = @ + 1,
                                              !.face_detected_frames = @ + 1])
           IN  /\ sessions' = [sessions EXCEPT ![id] = sd]
               /\ threads' = [threads EXCEPT !.frame =
                      [pc    |-> IF policy_met(profile, sd)
                                 THEN "set_complete" ELSE "return",
                       id    |-> id,
                       input |-> input,
                       copy  |-> sessions[id].movements]]
        /\ UNCHANGED <<profile, now, response, varied, step>>

\* session_data['verification_complete'] = True
cvc_set_complete ==
    /\ threads.frame.pc = "set_complete"
    /\ sessions' = [sessions EXCEPT ![threads.frame.id].verification_complete = TRUE]
    /\ threads' = [threads EXCEPT !.frame.pc = "set_verified"]
    /\ UNCHANGED <<profile, now, response, varied, step>>

\* session_data['is_verified'] = True
cvc_set_verified ==
    /\ threads.frame.pc = "set_verified"
    /\ sessions' = [sessions EXCEPT ![threads.frame.id].is_verified = TRUE]
    /\ threads' = [threads EXCEPT !.frame.pc = "return"]
    /\ UNCHANGED <<profile, now, response, varied, step>>

\* return session_data['verification_complete'], and the rest of
\* process_frame: the response is completed and returned.
frame_return ==
    /\ threads.frame.pc = "return"
    /\ LET id == threads.frame.id
       IN  response' =
               [ op |-> "process_frame", id |-> id,
                 face_detected         |-> TRUE,
                 movement_detected     |-> classify(profile, threads.frame.input.pose),
                 movements_completed   |-> threads.frame.copy,
                 verification_complete |-> sessions[id].verification_complete,
                 is_verified           |-> sessions[id].is_verified,
                 progress              |-> progress_of(sessions[id]) ]
    /\ threads' = [threads EXCEPT !.frame = IdleThread]
    /\ step' = step + 1
    /\ UNCHANGED <<profile, sessions, now, varied>>

\* if session_id not in self.sessions ...; session_data = self.sessions[...]
gss_call ==
    \E id \in DOMAIN sessions :
        /\ threads.status.pc = "idle"
        /\ threads' = [threads EXCEPT !.status =
               [pc |-> "read_complete", id |-> id]]
        /\ UNCHANGED <<profile, sessions, now, response, varied, step>>

\* 'verification_complete': session_data['verification_complete'],
gss_read_complete ==
    /\ threads.status.pc = "read_complete"
    /\ threads' = [threads EXCEPT !.status =
           [pc |-> "read_verified", id |-> @.id,
            complete |-> sessions[@.id].verification_complete]]
    /\ UNCHANGED <<profile, sessions, now, response, varied, step>>

\* 'is_verified': session_data['is_verified'],
gss_read_verified ==
    /\ threads.status.pc = "read_verified"
    /\ threads' = [threads EXCEPT !.status =
           [pc |-> "return", id |-> @.id,
            complete |-> @.complete,
            verified |-> sessions[@.id].is_verified]]
    /\ UNCHANGED <<profile, sessions, now, response, varied, step>>

\* The counters and the elapsed time are read and the dictionary returned;
\* its 'movements_completed' is the movements dictionary of the record
\* itself, not a copy, and shows what the record holds at the return.
gss_return ==
    /\ threads.status.pc = "return"
    /\ LET id == threads.status.id
       IN  response' =
               [ op |-> "get_session_status", id |-> id,
                 session_id            |-> id,
                 movements_completed   |-> sessions[id].movements,
                 verification_complete |-> threads.status.complete,
                 is_verified           |-> threads.status.verified,
                 total_frames          |-> sessions[id].total_frames,
                 face_detected_frames  |-> sessions[id].face_detected_frames,
                 elapsed_time          |-> now - sessions[id].start_time ]
    /\ threads' = [threads EXCEPT !.status = IdleThread]
    /\ UNCHANGED <<profile, sessions, now, varied, step>>

NextVerdict ==
    \/ VerdictCreate
    \/ frame_begin
    \/ cvc_set_complete
    \/ cvc_set_verified
    \/ frame_return
    \/ gss_call
    \/ gss_read_complete
    \/ gss_read_verified
    \/ gss_return

SpecVerdict == InitVerdict /\ [][NextVerdict]_vars

(***************************************************************************)
(* Vocabulary of the properties                                            *)
(***************************************************************************)
\* r is what a process_frame call for session id returned.
FrameCall(r, id) == r.op = "process_frame" /\ r.id = id
\* ... and it is a result, not an error.
FrameResult(r, id) == FrameCall(r, id) /\ "face_detected" \in DOMAIN r

\* The completion policy as the specification states it, on a record.
Satisfied(sd) == Cardinality({m \in {"left", "right", "up", "center"} : sd.movements[m]})
PolicyHolds(sd) ==
    /\ Satisfied(sd) >= 3
    /\ sd.total_frames >= min_frames(profile)
    /\ 10 * sd.face_detected_frames >= min_rate_tenths(profile) * Max(sd.total_frames, 1)

C2_CompletionDecision ==
    [][\A id \in DOMAIN sessions :
          (/\ ~sessions[id].verification_complete
           /\ FrameResult(response', id)
           /\ response'.face_detected)
              => /\ sessions'[id].verification_complete <=> PolicyHolds(sessions[id])'
                 /\ sessions'[id].is_verified = sessions'[id].verification_complete]_vars

\* The frame on which a session completes with every condition at its
\* boundary: exactly 3 movements, exactly min_frames frames, exactly the
\* minimum rate.
C2_Witness ==
    \E id \in DOMAIN sessions :
        /\ FrameResult(response, id)
        /\ response.face_detected
        /\ response.verification_complete
        /\ Satisfied(sessions[id]) = 3
        /\ sessions[id].total_frames = min_frames(profile)
        /\ 10 * sessions[id].face_detected_frames
               = min_rate_tenths(profile) * sessions[id].total_frames

(***************************************************************************)
(* C3, as claimed: after every process_frame call that returns a result,   *)
(* with or without a pose, a record that satisfies the policy has          *)
(* verification_complete true.                                             *)
(***************************************************************************)
C3_Original ==
    [][\A id \in DOMAIN sessions :
          (FrameResult(response', id) /\ PolicyHolds(sessions[id])')
              => sessions'[id].verification_complete]_vars

(***************************************************************************)
(* C3, amended: after every process_frame call with a pose present, a      *)
(* record that satisfies the policy has verification_complete true.        *)
(***************************************************************************)
C3_EvaluatedWithPose ==
    [][\A id \in DOMAIN sessions :
          (/\ FrameResult(response', id)
           /\ response'.face_detected
           /\ PolicyHolds(sessions[id])')
              => sessions'[id].verification_complete]_vars

\* A frame with a pose, past the minimum frame count, on a record that
\* satisfies the policy.
C3_Witness ==
    \E id \in DOMAIN sessions :
        /\ FrameResult(response, id)
        /\ response.face_detected
        /\ PolicyHolds(sessions[id])
        /\ sessions[id].total_frames > min_frames(profile)
        /\ sessions[id].verification_complete

(***************************************************************************)
(* C4.  Monotonic completed movements: a movement label that is marked     *)
(* completed stays completed after every further process_frame call,       *)
(* whatever the frame: a pose labelled none, no face, another label.       *)
(***************************************************************************)
C4_MovementsMonotonic ==
    [][\A id \in DOMAIN sessions :
          \A m \in Movements :
              (sessions[id].movements[m] /\ FrameCall(response', id))
                  => id \in DOMAIN sessions' /\ sessions'[id].movements[m]]_vars

\* Two labels are completed and the last frame had a pose labelled none.
C4_Witness ==
    \E id \in DOMAIN sessions :
        /\ FrameResult(response, id)
        /\ response.face_detected
        /\ response.movement_detected = NoMovement
        /\ Cardinality({m \in Movements : sessions[id].movements[m]}) >= 2

(***************************************************************************)
(* C5.  Counter invariant: after every create_session, process_frame and   *)
(* get_session_status call, face_detected_frames <= total_frames in every  *)
(* session.                                                                *)
(***************************************************************************)
C5_CounterInvariant ==
    \A id \in DOMAIN sessions :
        sessions[id].face_detected_frames <= sessions[id].total_frames

\* Every frame of a session had a face, and a status query followed.
C5_Witness ==
    \E id \in DOMAIN sessions :
        /\ response.op = "get_session_status"
        /\ response.id = id
        /\ sessions[id].total_frames = MaxStoreFrames
        /\ sessions[id].face_detected_frames = sessions[id].total_frames

(***************************************************************************)
(* C6, as claimed: session ids are unique.  A create_session call never    *)
(* returns an id that an earlier create_session call returned; no session  *)
(* is ever removed, so the ids returned so far are the keys of sessions.   *)
(***************************************************************************)
C6_UniqueIds ==
    [][(response'.op = "create_session" /\ now' = now)
          => response'.id \notin DOMAIN sessions]_vars

(***************************************************************************)
(* C8.  Unknown session id: a process_frame or get_session_status call     *)
(* with an id that is not a key of sessions returns the error              *)
(* "Invalid session ID" and leaves sessions, keys and records, unchanged.  *)
(***************************************************************************)
C8_UnknownIdNoEffect ==
    [][(/\ response'.op \in {"process_frame", "get_session_status"}
        /\ now' = now
        /\ response'.id \notin DOMAIN sessions)
          => /\ "error" \in DOMAIN response'
             /\ response'.error = "Invalid session ID"
             /\ sessions' = sessions]_vars

\* A frame for an unknown id was refused while another session, which has
\* counted frames, exists.
C8_Witness ==
    /\ response.op = "process_frame"
    /\ "error" \in DOMAIN response
    /\ response.error = "Invalid session ID"
    /\ response.id \notin DOMAIN sessions
    /\ \E id \in DOMAIN sessions : sessions[id].total_frames > 0

(***************************************************************************)
(* C9.  The 60-frame scenario under the policy 3 of 4 / 60 frames / 0.7:   *)
(* after the last frame of the script the session has                      *)
(* verification_complete and is_verified true with up not completed, and   *)
(* that frame's result reports both flags true and progress 75.            *)
(***************************************************************************)
C9_ScenarioCompletes ==
    (profile = "api" /\ step = ScenarioLength)
        => \A id \in DOMAIN sessions :
              /\ sessions[id].verification_complete
              /\ sessions[id].is_verified
              /\ ~sessions[id].movements["up"]
              /\ FrameResult(response, id)
                    => /\ response.verification_complete
                       /\ response.is_verified
                       /\ response.progress = 75

\* The result of the last frame of the script.
C9_Witness ==
    /\ profile = "api"
    /\ step = ScenarioLength
    /\ \E id \in DOMAIN sessions :
          /\ FrameResult(response, id)
          /\ sessions[id].total_frames = ScenarioLength
          /\ sessions[id].face_detected_frames = ScenarioLength
          /\ response.progress = 75

(***************************************************************************)
(* C10, as claimed: in the scenario, verification_complete becomes true on *)
(* the frame at which the 3rd distinct required movement is first          *)
(* observed.                                                               *)
(***************************************************************************)
C10_Original ==
    [][\A id \in DOMAIN sessions :
          (/\ profile = "api"
           /\ ~sessions[id].verification_complete
           /\ sessions'[id].verification_complete)
              => Satisfied(sessions[id]) < 3 /\ Satisfied(sessions'[id]) >= 3]_vars

(***************************************************************************)
(* C10, amended: in the scenario the 3rd distinct required movement is     *)
(* first observed on the first frame of the third segment, and             *)
(* verification_complete is true from the frame on which total_frames      *)
(* reaches 60, the minimum frame count, and on no earlier frame.           *)
(***************************************************************************)
C10_CompletesAtMinFrames ==
    profile = "api"
        => \A id \in DOMAIN sessions :
              /\ Satisfied(sessions[id]) >= 3
                    <=> sessions[id].total_frames >= 2 * ScenarioSegment + 1
              /\ sessions[id].verification_complete
                    <=> sessions[id].total_frames >= 60

\* The 3rd movement has been observed, and the session is one frame short
\* of the minimum and not complete.
C10_Witness ==
    /\ profile = "api"
    /\ \E id \in DOMAIN sessions :
          /\ Satisfied(sessions[id]) = 3
          /\ sessions[id].total_frames = 59
          /\ ~sessions[id].verification_complete

(***************************************************************************)
(* C7, as claimed: no lost updates.  When all the concurrent process_frame *)
(* calls for a session have returned, total_frames has grown by the number *)
(* of calls and face_detected_frames by the number of calls that carried a *)
(* pose.                                                                   *)
(***************************************************************************)
C7_NoLostUpdates ==
    (\A t \in Threads : threads[t].pc \in {"done", "refused"})
        => \A id \in DOMAIN sessions :
              /\ sessions[id].total_frames
                    = Cardinality({t \in Threads :
                          threads[t].pc = "done" /\ threads[t].id = id})
              /\ sessions[id].face_detected_frames
                    = Cardinality({t \in Threads :
                          /\ threads[t].pc = "done"
                          /\ threads[t].id = id
                          /\ threads[t].input.kind = "face"})

(***************************************************************************)
(* C11.  A session that only ever receives frames without a face never     *)
(* completes: after any number of such frames face_detected_frames is 0,   *)
(* verification_complete and is_verified are false in the record and in    *)
(* the status, and every frame result has face_detected false and both     *)
(* flags false.                                                            *)
(***************************************************************************)
C11_AbsentNeverCompletes ==
    \A id \in DOMAIN sessions :
        /\ sessions[id].face_detected_frames = 0
        /\ ~sessions[id].verification_complete
        /\ ~sessions[id].is_verified
        /\ FrameCall(response, id)
              => /\ FrameResult(response, id)
                 /\ ~response.face_detected
                 /\ ~response.verification_complete
                 /\ ~response.is_verified
        /\ (response.op = "get_session_status" /\ response.id = id)
              => /\ ~response.verification_complete
                 /\ ~response.is_verified
                 /\ response.face_detected_frames = 0

\* The 60th frame without a face.
C11_Witness ==
    \E id \in DOMAIN sessions :
        /\ FrameResult(response, id)
        /\ ~response.face_detected
        /\ sessions[id].total_frames = 60
        /\ sessions[id].face_detected_frames = 0

(***************************************************************************)
(* C12.  Every process_frame call on an existing session increases its     *)
(* total_frames by exactly 1, with or without a pose, complete or not; a   *)
(* call that repeats the pose of the call before it counts again.          *)
(***************************************************************************)
C12_TotalFramesCounts ==
    [][\A id \in DOMAIN sessions :
          FrameCall(response', id)
              => sessions'[id].total_frames = sessions[id].total_frames + 1]_vars

\* A frame counted on a session that was already complete: the session
\* completed on the frame that reached the minimum count, and one more
\* frame followed.
C12_Witness ==
    \E id \in DOMAIN sessions :
        /\ FrameResult(response, id)
        /\ ~response.face_detected
        /\ sessions[id].verification_complete
        /\ sessions[id].total_frames = min_frames(profile) + 1
        /\ sessions[id].face_detected_frames < sessions[id].total_frames
        /\ Len(sessions[id].movement_history) = movement_history_maxlen

(***************************************************************************)
(* C13.  Frame effect of an absent pose: a process_frame call in which no  *)
(* face is found changes only total_frames of the addressed session;       *)
(* face_detected_frames, movements, movement_history, face_positions,      *)
(* verification_complete and is_verified keep their values.                *)
(***************************************************************************)
C13_AbsentFrameEffect ==
    [][\A id \in DOMAIN sessions :
          (FrameResult(response', id) /\ ~response'.face_detected)
              => sessions'[id] =
                     [sessions[id] EXCEPT !.total_frames = sessions[id].total_frames + 1]]_vars

\* A frame without a face on an open session that has histories, completed
\* movements and a record that satisfies the policy.
C13_Witness ==
    \E id \in DOMAIN sessions :
        /\ FrameResult(response, id)
        /\ ~response.face_detected
        /\ Len(sessions[id].movement_history) > 0
        /\ Len(sessions[id].face_positions) > 0
        /\ PolicyHolds(sessions[id])
        /\ ~sessions[id].verification_complete

(***************************************************************************)
(* C14, as claimed: the result of a process_frame call in which no face is *)
(* found mirrors the record: face_detected is false, movements_completed   *)
(* equals the record's movements, verification_complete and is_verified    *)
(* equal the record's flags, and progress is                               *)
(* min(100, 100 * satisfied / 4) of the record.                            *)
(***************************************************************************)
C14_AbsentResultMirrorsRecord ==
    [][\A id \in DOMAIN sessions :
          (FrameResult(response', id) /\ ~response'.face_detected)
              => /\ response'.movements_completed = sessions'[id].movements
                 /\ response'.verification_complete = sessions'[id].verification_complete
                 /\ response'.is_verified = sessions'[id].is_verified
                 /\ response'.progress
                        = Min(100, (100 * Satisfied(sessions'[id])) \div 4)]_vars

(***************************************************************************)
(* The classifier as the specification states it: an ordered list of       *)
(* rules, of which the first that matches gives the label.                 *)
(***************************************************************************)
\* The pose of the last frame in which a face was found.
LastPose(sd) == sd.face_positions[Len(sd.face_positions)]

Rules(h, v) ==
    << [label |-> "center", matches |-> /\ Abs(h) < center_threshold(profile)
                                        /\ Abs(v) < center_threshold(profile)],
       [label |-> "right",  matches |-> h > h_threshold(profile)],
       [label |-> "left",   matches |-> h < -h_threshold(profile)],
       [label |-> "up",     matches |-> v < -v_threshold(profile)],
       [label |-> "down",   matches |-> v > v_threshold(profile)] >>

FirstMatch(h, v) ==
    LET R == Rules(h, v)
        M == {i \in DOMAIN R : R[i].matches}
    IN  IF M = {} THEN NoMovement
        ELSE R[CHOOSE i \in M : \A j \in M : i <= j].label

(***************************************************************************)
(* C15.  Classifier precedence: the label of every pose of the grid is     *)
(* that of the first matching rule in the order center, right, left, up,   *)
(* down, none; a pose inside the center box is center whatever its signs,  *)
(* and a pose beyond the horizontal threshold and beyond a vertical        *)
(* threshold is right or left, never up or down.                           *)
(***************************************************************************)
C15_ClassifierPrecedence ==
    \A id \in DOMAIN sessions :
        (FrameResult(response, id) /\ response.face_detected)
            => LET h == LastPose(sessions[id]).horizontal
                   v == LastPose(sessions[id]).vertical
                   L == response.movement_detected
               IN  /\ L = FirstMatch(h, v)
                   /\ (/\ Abs(h) < center_threshold(profile)
                       /\ Abs(v) < center_threshold(profile)) => L = "center"
                   /\ (/\ Abs(h) > h_threshold(profile)
                       /\ Abs(v) > v_threshold(profile)) => L \in {"right", "left"}

\* A pose that is right and up at once, labelled right.
C15_Witness ==
    \E id \in DOMAIN sessions :
        /\ FrameResult(response, id)
        /\ response.face_detected
        /\ LastPose(sessions[id]).horizontal > h_threshold(profile)
        /\ LastPose(sessions[id]).vertical < -v_threshold(profile)
        /\ response.movement_detected = "right"
        /\ sessions[id].movements["right"]
        /\ ~sessions[id].movements["up"]

(***************************************************************************)
(* C16.  Threshold boundaries are exclusive: a pose with |horizontal| or   *)
(* |vertical| equal to the center threshold is not center, a pose with     *)
(* horizontal equal to plus or minus the horizontal threshold is not right *)
(* or left, a pose with vertical equal to plus or minus the vertical       *)
(* threshold is not up or down, and a pose on such a boundary that no rule *)
(* matches is labelled none.                                               *)
(***************************************************************************)
OnBoundary(h, v) ==
    \/ Abs(h) = center_threshold(profile)
    \/ Abs(v) = center_threshold(profile)
    \/ Abs(h) = h_threshold(profile)
    \/ Abs(v) = v_threshold(profile)

C16_BoundariesExclusive ==
    \A id \in DOMAIN sessions :
        (FrameResult(response, id) /\ response.face_detected)
            => LET h == LastPose(sessions[id]).horizontal
                   v == LastPose(sessions[id]).vertical
                   L == response.movement_detected
               IN  /\ (\/ Abs(h) = center_threshold(profile)
                       \/ Abs(v) = center_threshold(profile)) => L # "center"
                   /\ Abs(h) = h_threshold(profile) => L \notin {"right", "left"}
                   /\ Abs(v) = v_threshold(profile) => L \notin {"up", "down"}
                   /\ (/\ OnBoundary(h, v)
                       /\ \A i \in DOMAIN Rules(h, v) : ~Rules(h, v)[i].matches)
                          => /\ L = NoMovement
                             /\ sessions[id].movements = [m \in Movements |-> FALSE]

\* The pose on the horizontal and on the vertical threshold, labelled none.
C16_Witness ==
    \E id \in DOMAIN sessions :
        /\ FrameResult(response, id)
        /\ response.face_detected
        /\ LastPose(sessions[id]).horizontal = h_threshold(profile)
        /\ LastPose(sessions[id]).vertical = -v_threshold(profile)
        /\ response.movement_detected = NoMovement

(***************************************************************************)
(* C17.  Effect of a frame with a pose: face_detected_frames grows by      *)
(* exactly 1 and the pose is appended to face_positions (the oldest entry  *)
(* leaving a full deque); if the label is not None, exactly that movement  *)
(* is marked and one entry is appended to movement_history; if the label   *)
(* is None, movements and movement_history are unchanged.                  *)
(***************************************************************************)
\* d2 is d with one entry appended, the oldest evicted when d holds n entries.
Appended(d, d2, n) ==
    /\ Len(d2) = Min(Len(d) + 1, n)
    /\ SubSeq(d2, 1, Len(d2) - 1)
           = IF Len(d) = n THEN SubSeq(d, 2, Len(d)) ELSE d

C17_PoseFrameEffect ==
    [][\A id \in DOMAIN sessions :
          (FrameResult(response', id) /\ response'.face_detected)
              => LET sd == sessions[id]
                     sn == sessions'[id]
                     L  == response'.movement_detected
                 IN  /\ sn.face_detected_frames = sd.face_detected_frames + 1
                     /\ Appended(sd.face_positions, sn.face_positions,
                                 face_positions_maxlen(profile))
                     /\ L # NoMovement
                          => /\ L \in Movements
                             /\ sn.movements = [sd.movements EXCEPT ![L] = TRUE]
                             /\ Appended(sd.movement_history, sn.movement_history,
                                         movement_history_maxlen)
                             /\ sn.movement_history[Len(sn.movement_history)].movement = L
                             /\ sn.movement_history[Len(sn.movement_history)].pose.horizontal
                                    = LastPose(sn).horizontal
                             /\ sn.movement_history[Len(sn.movement_history)].pose.vertical
                                    = LastPose(sn).vertical
                     /\ L = NoMovement
                          => /\ sn.movements = sd.movements
                             /\ sn.movement_history = sd.movement_history]_vars

\* A frame with a face and the label None, on a session whose face_positions
\* was full and whose movement_history was not empty.
C17_Witness ==
    \E id \in DOMAIN sessions :
        /\ FrameResult(response, id)
        /\ response.face_detected
        /\ response.movement_detected = NoMovement
        /\ sessions[id].face_detected_frames > face_positions_maxlen(profile)
        /\ Len(sessions[id].face_positions) = face_positions_maxlen(profile)
        /\ Len(sessions[id].movement_history) = movement_history_maxlen
        /\ sessions[id].movements["center"]

(***************************************************************************)
(* C18.  Progress: the progress of the result of every frame with a pose   *)
(* is min(100, 100 * satisfied / 4), satisfied being the number of the     *)
(* movements left, right, up, center marked in the record after the frame; *)
(* a frame labelled down leaves it as it was, and it never decreases       *)
(* from one frame with a pose to the next of the same session.             *)
(***************************************************************************)
SpecProgress(sd) == Min(100, (100 * Satisfied(sd)) \div 4)

C18_ProgressMetric ==
    [][\A id \in DOMAIN sessions :
          /\ SpecProgress(sessions'[id]) >= SpecProgress(sessions[id])
          /\ (FrameResult(response', id) /\ response'.face_detected)
                => /\ response'.progress = SpecProgress(sessions'[id])
                   /\ response'.progress >= SpecProgress(sessions[id])
                   /\ (FrameResult(response, id) /\ response.face_detected)
                          => response'.progress >= response.progress
                   /\ response'.movement_detected = "down"
                          => response'.progress = SpecProgress(sessions[id])]_vars

\* A frame labelled down after the center movement: progress stays at 25.
C18_Witness ==
    \E id \in DOMAIN sessions :
        /\ FrameResult(response, id)
        /\ response.face_detected
        /\ response.movement_detected = "down"
        /\ sessions[id].movements["down"]
        /\ sessions[id].movements["center"]
        /\ response.progress = 25

(***************************************************************************)
(* C19.  get_session_status is read-only and faithful: a status query on a *)
(* known session changes no session record, and the movements_completed,   *)
(* verification_complete, is_verified, total_frames, face_detected_frames  *)
(* it returns are those of the record; on a session just created it        *)
(* returns that session's id and total_frames 0.                           *)
(***************************************************************************)
StatusResult(r) == r.op = "get_session_status" /\ "error" \notin DOMAIN r

C19_StatusReadOnly ==
    [][StatusResult(response')
          => /\ sessions' = sessions
             /\ response'.id \in DOMAIN sessions
             /\ response'.session_id = response'.id
             /\ response'.movements_completed = sessions[response'.id].movements
             /\ response'.verification_complete
                    = sessions[response'.id].verification_complete
             /\ response'.is_verified = sessions[response'.id].is_verified
             /\ response'.total_frames = sessions[response'.id].total_frames
             /\ response'.face_detected_frames
                    = sessions[response'.id].face_detected_frames
             /\ (response.op = "create_session" /\ response'.id = response.id)
                    => /\ response'.session_id = response.id
                       /\ response'.total_frames = 0]_vars

\* A status query answered for a session that has received frames, one of
\* them with a face at the center.
C19_Witness ==
    /\ StatusResult(response)
    /\ response.total_frames = MaxStoreFrames
    /\ response.face_detected_frames >= 1
    /\ response.movements_completed["center"]
    /\ sessions[response.id].total_frames = MaxStoreFrames

(***************************************************************************)
(* C20.  No completed-but-rejected state and no failure transition: in     *)
(* every state verification_complete = is_verified for every session, and  *)
(* a frame after which the policy does not hold leaves an open session     *)
(* open, both flags false, and is counted as any other frame.              *)
(***************************************************************************)
C20_NoRejectedState ==
    [][\A id \in DOMAIN sessions :
          /\ sessions[id].verification_complete = sessions[id].is_verified
          /\ sessions'[id].verification_complete = sessions'[id].is_verified
          /\ (~sessions[id].verification_complete /\ ~PolicyHolds(sessions'[id]))
                => /\ ~sessions'[id].verification_complete
                   /\ ~sessions'[id].is_verified
                   /\ FrameCall(response', id)
                          => sessions'[id].total_frames
                                 = sessions[id].total_frames + 1]_vars

\* A session still open after more than min_frames frames, all with a face.
C20_Witness ==
    \E id \in DOMAIN sessions :
        /\ FrameResult(response, id)
        /\ sessions[id].total_frames > min_frames(profile)
        /\ sessions[id].face_detected_frames = sessions[id].total_frames
        /\ Satisfied(sessions[id]) < 3
        /\ ~sessions[id].verification_complete
        /\ ~sessions[id].is_verified

(***************************************************************************)
(* C21.  Bounded histories: movement_history never holds more than 30      *)
(* entries and face_positions never more than 10 (api) or 15 (simple);     *)
(* every step leaves each of them as it was or appends one entry, which on *)
(* a full deque removes exactly the oldest entry and keeps the others in   *)
(* their order; face_positions therefore holds the last                    *)
(* min(maxlen, face_detected_frames) poses and ends with the pose of the   *)
(* latest frame with a face.                                               *)
(***************************************************************************)
C21_BoundedHistories ==
    [][\A id \in DOMAIN sessions :
          LET sd == sessions[id]
              sn == sessions'[id]
              capacity == face_positions_maxlen(profile)
          IN  /\ Len(sn.movement_history) <= movement_history_maxlen
              /\ Len(sn.face_positions) = Min(capacity, sn.face_detected_frames)
              /\ \/ sn.face_positions = sd.face_positions
                 \/ Appended(sd.face_positions, sn.face_positions, capacity)
              /\ \/ sn.movement_history = sd.movement_history
                 \/ Appended(sd.movement_history, sn.movement_history,
                             movement_history_maxlen)
              /\ (FrameResult(response', id) /\ response'.face_detected)
                    => /\ Appended(sd.face_positions, sn.face_positions, capacity)
                       /\ classify(profile, LastPose(sn)) = response'.movement_detected
                       /\ response'.movement_detected # NoMovement
                            => /\ Appended(sd.movement_history, sn.movement_history,
                                           movement_history_maxlen)
                               /\ sn.movement_history[Len(sn.movement_history)].movement
                                      = response'.movement_detected]_vars

\* Both deques full and more than 30 labelled frames received, the latest
\* of them a turn to the right that has displaced a center entry.
C21_Witness ==
    \E id \in DOMAIN sessions :
        /\ FrameResult(response, id)
        /\ response.movement_detected = "right"
        /\ sessions[id].face_detected_frames > movement_history_maxlen + 1
        /\ Len(sessions[id].movement_history) = movement_history_maxlen
        /\ sessions[id].movement_history[1].movement = "center"
        /\ sessions[id].movement_history[movement_history_maxlen].movement = "right"
        /\ Len(sessions[id].face_positions) = face_positions_maxlen(profile)
        /\ LastPose(sessions[id]).horizontal > h_threshold(profile)

(***************************************************************************)
(* C22.  Order independence: two sessions that have received the same      *)
(* frames with a pose, in whatever order, have equal movements,            *)
(* total_frames, face_detected_frames, verification_complete and           *)
(* is_verified.                                                            *)
(***************************************************************************)
\* The number of labelled frames of a session that had the pose q; the
\* movement_history holds every labelled frame while it is not full.
PoseCount(sd, q) ==
    Cardinality({i \in DOMAIN sd.movement_history : sd.movement_history[i].pose = q})

\* Every frame of the session had a pose.
OnlyPoses(sd) == sd.face_detected_frames = sd.total_frames

\* The frames of the two sessions are permutations of each other: as many
\* frames, and each labelled pose as many times; the other frames of a
\* session of SpecOrder all have the pose PoseNone.
SameFrames(sa, sb) ==
    /\ OnlyPoses(sa)
    /\ OnlyPoses(sb)
    /\ Len(sa.movement_history) < movement_history_maxlen
    /\ Len(sb.movement_history) < movement_history_maxlen
    /\ sa.total_frames = sb.total_frames
    /\ \A input \in OrderPoses : PoseCount(sa, input.pose) = PoseCount(sb, input.pose)

C22_OrderIndependence ==
    \A a \in DOMAIN sessions :
        \A b \in DOMAIN sessions :
            SameFrames(sessions[a], sessions[b])
                => /\ sessions[a].movements = sessions[b].movements
                   /\ sessions[a].total_frames = sessions[b].total_frames
                   /\ sessions[a].face_detected_frames = sessions[b].face_detected_frames
                   /\ sessions[a].verification_complete = sessions[b].verification_complete
                   /\ sessions[a].is_verified = sessions[b].is_verified

\* Two sessions with the same frames, the labelled ones in a different
\* order and at a different place, both verified.
C22_Witness ==
    \E a \in DOMAIN sessions :
        \E b \in DOMAIN sessions :
            /\ a # b
            /\ SameFrames(sessions[a], sessions[b])
            /\ Len(sessions[a].movement_history) = min_completed
            /\ sessions[a].movement_history[1].movement
                   # sessions[b].movement_history[1].movement
            /\ LastPose(sessions[a]) # LastPose(sessions[b])
            /\ sessions[a].is_verified
            /\ sessions[b].is_verified

(***************************************************************************)
(* C23.  Session isolation: a process_frame call for a session id changes  *)
(* at most the record stored under that id; the record of every other      *)
(* session id is unchanged, and no record is added or removed.             *)
(***************************************************************************)
C23_SessionIsolation ==
    [][\A a \in StoreIds :
          FrameCall(response', a)
              => /\ DOMAIN sessions' = DOMAIN sessions
                 /\ \A b \in DOMAIN sessions \ {a} : sessions'[b] = sessions[b]]_vars

\* A frame with a face taken for one session while another session has
\* frames of its own.
C23_Witness ==
    \E a \in DOMAIN sessions :
        \E b \in DOMAIN sessions :
            /\ a # b
            /\ FrameResult(response, a)
            /\ response.face_detected
            /\ sessions[a].total_frames = MaxStoreFrames
            /\ sessions[a].face_detected_frames = MaxStoreFrames
            /\ sessions[b].total_frames = 1
            /\ sessions[b].face_detected_frames = 0

(***************************************************************************)
(* C24.  A newly created session starts zeroed: right after create_session *)
(* the record under the returned id has total_frames 0,                    *)
(* face_detected_frames 0, no movement marked, both histories empty and    *)
(* both flags false.                                                       *)
(***************************************************************************)
C24_CreatedZeroed ==
    response.op = "create_session"
        => /\ response.id \in DOMAIN sessions
           /\ sessions[response.id].total_frames = 0
           /\ sessions[response.id].face_detected_frames = 0
           /\ \A m \in Movements : ~sessions[response.id].movements[m]
           /\ sessions[response.id].movement_history = << >>
           /\ sessions[response.id].face_positions = << >>
           /\ ~sessions[response.id].verification_complete
           /\ ~sessions[response.id].is_verified

\* A session created while another session has received frames.
C24_Witness ==
    /\ response.op = "create_session"
    /\ response.id \in DOMAIN sessions
    /\ sessions[response.id].total_frames = 0
    /\ \E b \in DOMAIN sessions \ {response.id} :
           /\ sessions[b].face_detected_frames = MaxStoreFrames
           /\ sessions[b].movements["center"]

(***************************************************************************)
(* C25.  Invalid pose rejection: a frame whose pose has a non-finite       *)
(* horizontal or vertical value is rejected and changes nothing of the     *)
(* record but total_frames.  Hence every frame answered as face_detected,  *)
(* and every frame that changes more of the record than total_frames, has  *)
(* a finite pose, and no non-finite pose enters face_positions.            *)
(***************************************************************************)
FinitePose(q) == Finite(q.horizontal) /\ Finite(q.vertical)

C25_InvalidPoseRejected ==
    [][\A id \in DOMAIN sessions :
          FrameCall(response', id)
              => /\ (FrameResult(response', id) /\ response'.face_detected)
                        => FinitePose(LastPose(sessions'[id]))
                 /\ \A i \in DOMAIN sessions'[id].face_positions :
                        FinitePose(sessions'[id].face_positions[i])
                 /\ sessions'[id].movements # sessions[id].movements
                        => FinitePose(LastPose(sessions'[id]))]_vars

(***************************************************************************)
(* C26.  Deletion is observable: after the deletion of a session, every    *)
(* later process_frame and get_session_status call for its id fails and    *)
(* the id names no session.  During the first millisecond every session    *)
(* created so far has the id session_id_now, so that after a deletion      *)
(* (step >= 1) that id is the id of a deleted session.                     *)
(***************************************************************************)
CallFor(r, id) ==
    /\ r.op \in {"process_frame", "get_session_status"}
    /\ r.id = id

C26_DeletionObservable ==
    [][(step >= 1 /\ now' < TicksPerMs /\ CallFor(response', session_id_now))
          => /\ "error" \in DOMAIN response'
             /\ session_id_now \notin DOMAIN sessions']_vars

(***************************************************************************)
(* C28.  The verdict is monotone as the client sees it: after a            *)
(* process_frame result that reports verification_complete and is_verified *)
(* true, the next process_frame result for that session, with or without a *)
(* face, reports both true as well.                                        *)
(***************************************************************************)
C28_VerdictMonotone ==
    [][\A id \in DOMAIN sessions :
          (/\ FrameResult(response, id)
           /\ response.verification_complete
           /\ response.is_verified
           /\ FrameResult(response', id))
              => /\ response'.verification_complete
                 /\ response'.is_verified]_vars

(***************************************************************************)
(* C29.  A frame result agrees with the updated record: in the result of   *)
(* every frame with a pose, movements_completed is the movements of the    *)
(* record after the frame, the movement detected (if any) is marked in it, *)
(* and progress is 100 * (the required movements marked in it) / 4.        *)
(***************************************************************************)
C29_ResultConsistent ==
    \A id \in DOMAIN sessions :
        (FrameResult(response, id) /\ response.face_detected)
            => /\ response.movements_completed = sessions[id].movements
               /\ response.movement_detected # NoMovement
                      => response.movements_completed[response.movement_detected]
               /\ response.progress
                      = (100 * Cardinality({m \in {"left", "right", "up", "center"} :
                                               response.movements_completed[m]})) \div 4

(***************************************************************************)
(* C30.  Counter invariant under concurrency: however the loads and stores *)
(* of total_frames and face_detected_frames of concurrent process_frame    *)
(* calls for one session interleave, 0 <= face_detected_frames and         *)
(* face_detected_frames <= total_frames in every state.                    *)
(***************************************************************************)
C30_CounterInvariantConcurrent ==
    \A id \in DOMAIN sessions :
        /\ 0 <= sessions[id].face_detected_frames
        /\ sessions[id].face_detected_frames <= sessions[id].total_frames

(***************************************************************************)
(* C31.  Evidence behind a verdict: in every state of a sequential run in  *)
(* which verification_complete is true, total_frames >= min_frames, at     *)
(* least 3 of left, right, up, center are marked, and                      *)
(* face_detected_frames >= ceil(min_face_detection_rate * min_frames),     *)
(* which is 42 for the api verifier and 27 for the simple one; the rate of *)
(* the record may by then be below min_face_detection_rate.                *)
(***************************************************************************)
\* ceil(min_face_detection_rate * min_frames), the rate being in tenths
EvidenceFrames == (min_rate_tenths(profile) * min_frames(profile) + 9) \div 10

C31_EvidenceBehindVerdict ==
    \A id \in DOMAIN sessions :
        sessions[id].verification_complete
            => /\ sessions[id].total_frames >= min_frames(profile)
               /\ Satisfied(sessions[id]) >= 3
               /\ sessions[id].face_detected_frames >= EvidenceFrames
               /\ profile = "api" => sessions[id].face_detected_frames >= 42
               /\ profile = "simple" => sessions[id].face_detected_frames >= 27

\* A verified session with exactly that many frames with a face, whose
\* rate has since dropped below the minimum.
C31_Witness ==
    \E id \in DOMAIN sessions :
        /\ sessions[id].verification_complete
        /\ sessions[id].face_detected_frames = EvidenceFrames
        /\ 10 * sessions[id].face_detected_frames
               < min_rate_tenths(profile) * sessions[id].total_frames

(***************************************************************************)
(* C32.  Eventual completion: a session in which three of the required     *)
(* movements are marked, and to which frames with a face keep being sent   *)
(* once the frames without a face have ceased, eventually has              *)
(* verification_complete true, however many frames without a face (up to   *)
(* MaxLiveAbsent) came before.  SpecLive has one session, so that "some    *)
(* session" below is that session.                                         *)
(***************************************************************************)
C32_EventualCompletion ==
    (\E id \in DOMAIN sessions : Satisfied(sessions[id]) >= 3)
        ~> (\E id \in DOMAIN sessions : sessions[id].verification_complete)

\* A session completed after MaxLiveAbsent frames without a face, later
\* than its min_frames-th frame.
C32_Witness ==
    \E id \in DOMAIN sessions :
        /\ sessions[id].verification_complete
        /\ sessions[id].total_frames - sessions[id].face_detected_frames = MaxLiveAbsent
        /\ sessions[id].total_frames > min_frames(profile)
        /\ FrameResult(response, id)
        /\ response.movement_detected = NoMovement
        /\ response.verification_complete

(***************************************************************************)
(* C33.  create_session never disturbs an existing session: a              *)
(* create_session call leaves the record of every session already in the   *)
(* store unchanged, and the number of sessions grows by exactly 1.         *)
(***************************************************************************)
C33_CreatePreservesSessions ==
    [][(response'.op = "create_session" /\ now' = now)
          => /\ \A id \in DOMAIN sessions :
                    /\ id \in DOMAIN sessions'
                    /\ sessions'[id] = sessions[id]
             /\ Cardinality(DOMAIN sessions')
                    = Cardinality(DOMAIN sessions) + 1]_vars

(***************************************************************************)
(* C34.  Atomic verdict under concurrency: a get_session_status call that  *)
(* runs while a process_frame call is under way on the same session never  *)
(* returns verification_complete true together with is_verified false.     *)
(***************************************************************************)
C34_AtomicVerdict ==
    StatusResult(response)
        => ~(response.verification_complete /\ ~response.is_verified)

=============================================================================
